---- MODULE Spec2Model ----
(***************************************************************************)
(* passablewords: check_length, check_uniqueness, check_entropy and        *)
(* check_password (src/src/lib.rs), together with the two lazy_static      *)
(* cells FILE_CONTENTS and PASSWORDS that hold the common-password corpus. *)
(*                                                                         *)
(* A string is a sequence of characters; every character knows how many    *)
(* bytes its UTF-8 encoding takes, so that str::len (bytes) and the        *)
(* character count are different functions of the same string.             *)
(***************************************************************************)
EXTENDS Integers, Sequences, FiniteSets, TLC

\* ---------------------------------------------------------------- bounds
\* Calls started in one behaviour of the concurrent specification.
MaxCalls == 3
\* Calls started in one behaviour of the specification with fairness.
MaxFairCalls == 2
\* Pieces (line body + terminator) of a corpus file in the sequential one.
MaxLines == 2

\* ------------------------------------------------------------- constants
\* `password.len() >= 8`
MinLength == 8
\* `result.score >= 3`
MinScore == 3

\* ------------------------------------------------------------ characters
LF == "\n"
CR == "\r"
SP == " "
\* A two-byte character (U+00E9).
EAcute == "e'"

\* UTF-8 width of a character.
Utf8Width(c) == IF c = EAcute THEN 2 ELSE 1

\* n copies of c.
Rep(c, n) == [i \in 1..n |-> c]

\* str::len: the length in bytes.
RECURSIVE StrLen(_)
StrLen(s) == IF s = <<>> THEN 0 ELSE Utf8Width(Head(s)) + StrLen(Tail(s))

\* --------------------------------------------------------------- results
None == "None"
Ok == "Ok"
TooShort == "TooShort"
TooCommon == "TooCommon"
TooSimple == "TooSimple"
NonAsciiPassword == "NonAsciiPassword"
InternalError == "InternalError"
\* A call that unwound with a panic instead of returning.
Panicked == "panic"

\* Result::and with its argument already evaluated: `last failure wins` is
\* the slip of testing the argument first.
AndLastWins(a, b) == IF b = Ok THEN a ELSE b

\* Result::and: the receiver's Err, else the argument.
And(a, b) == IF a = Ok THEN b ELSE a

\* ---------------------------------------------------------- check_length
\* `password.len() >= 8`: the length in bytes against the minimum.
check_length(password) ==
    IF StrLen(password) >= MinLength THEN Ok ELSE TooShort

\* ------------------------------------------------------------ str::lines
\* The text before the first "\n" of s (all of s when it holds none).
RECURSIVE UpToNewline(_)
UpToNewline(s) ==
    IF s = <<>> \/ Head(s) = LF THEN <<>>
    ELSE <<Head(s)>> \o UpToNewline(Tail(s))

\* Whether s holds a "\n".
HasNewline(s) == \E i \in 1..Len(s) : s[i] = LF

\* One trailing "\r" taken off a line.
StripCR(line) ==
    IF Len(line) > 0 /\ line[Len(line)] = CR
    THEN SubSeq(line, 1, Len(line) - 1)
    ELSE line

\* Lines that keep their "\r": the slip of splitting on "\n" alone.
RECURSIVE LinesKeepCR(_, _)
LinesKeepCR(s, stripFinalCR) ==
    IF s = <<>> THEN {}
    ELSE LET line == UpToNewline(s)
         IN  IF HasNewline(s)
             THEN {line} \cup LinesKeepCR(SubSeq(s, Len(line) + 2, Len(s)), stripFinalCR)
             ELSE {line}

\* str::lines, collected into a set: s is cut after every "\n"; a line loses
\* its "\n" and one "\r" right before it; nothing follows a final "\n". The
\* last line, when no "\n" ends it, loses a trailing "\r" under the standard
\* libraries that strip every line (stripFinalCR) and keeps it under those
\* that strip only "\r\n".
RECURSIVE Lines(_, _)
Lines(s, stripFinalCR) ==
    IF s = <<>> THEN {}
    ELSE LET line == UpToNewline(s)
         IN  IF HasNewline(s)
             THEN {StripCR(line)} \cup Lines(SubSeq(s, Len(line) + 2, Len(s)), stripFinalCR)
             ELSE {IF stripFinalCR THEN StripCR(line) ELSE line}

\* ------------------------------------------------------------- HashSet
\* A lookup that folds case: the slip of normalising before comparing.
Lower(c) == IF c = "A" THEN "a" ELSE c
ContainsFolded(set, password) ==
    \E e \in set : Len(e) = Len(password)
                   /\ \A i \in 1..Len(e) : Lower(e[i]) = Lower(password[i])

\* HashSet::contains.
Contains(set, password) == password \in set

\* The verdict of check_uniqueness once PASSWORDS is there.
UniquenessVerdict(set, password) ==
    IF Contains(set, password) THEN TooCommon ELSE Ok

\* --------------------------------------------------------- check_entropy
\* What zxcvbn(password, &[]) can come back with: Ok with a score of 0..4
\* (err is None), or Err with ZxcvbnError::NonAsciiPassword or with another
\* ZxcvbnError (score is 0 and unused).
Scores == 0..4
OtherZxcvbnError == "OtherZxcvbnError"
Outcomes ==
    {[err |-> None, score |-> s] : s \in Scores}
    \cup {[err |-> e, score |-> 0] : e \in {NonAsciiPassword, OtherZxcvbnError}}

\* The arguments of the estimator call: the password and the user inputs.
EstimatorCall(password) == [password |-> password, user_inputs |-> <<>>]

\* Every estimator error reported as TooSimple: the slip of a catch-all arm.
EntropyVerdictCatchAll(outcome) ==
    IF outcome.err = None /\ outcome.score >= MinScore THEN Ok ELSE TooSimple

\* The match of check_entropy on the estimator's outcome.
EntropyVerdict(outcome) ==
    IF outcome.err = None
    THEN IF outcome.score >= MinScore THEN Ok ELSE TooSimple
    ELSE IF outcome.err = NonAsciiPassword THEN NonAsciiPassword
         ELSE InternalError

\* ---------------------------------------------------------------- inputs
\* An eight-character ASCII password and its near misses.
W8 == Rep("a", 8)
\* The first letter in upper case.
AW7 == <<"A">> \o Rep("a", 7)
\* A trailing space.
W8SP == W8 \o <<SP>>
\* A trailing carriage return.
W8CR == W8 \o <<CR>>
\* Seven characters, seven bytes.
W7 == Rep("a", 7)
\* Seven characters, eight bytes.
W6E == Rep("a", 6) \o <<EAcute>>
\* Eight characters, sixteen bytes.
E8 == Rep(EAcute, 8)

Passwords == {W8, AW7, W8SP, W8CR, W7, W6E, E8, <<>>}
\* The passwords of the concurrent specification.
SamplePasswords == {W8, W7}

\* The environment of the process: whether src/common-passwords.txt opens,
\* whether it reads as UTF-8, and its content.
FileEnv(o, r, d) == [opens |-> o, reads |-> r, data |-> d]
NoFile == FileEnv(FALSE, FALSE, <<>>)
BadFile == FileEnv(TRUE, FALSE, <<>>)

\* The files of the concurrent specification.
SampleFiles ==
    { FileEnv(TRUE, TRUE, W8 \o <<LF>> \o W6E \o <<LF>>), NoFile, BadFile }

\* The files of the sequential specification: up to MaxLines pieces, each a
\* line body followed by a terminator (or by nothing).
LineBodies == {W8, <<>>}
Terminators == {<<LF>>, <<CR, LF>>, <<CR>>, <<SP>>, <<>>}
Pieces == {b \o t : b \in LineBodies, t \in Terminators}
RECURSIVE Texts(_)
Texts(n) ==
    IF n = 0 THEN {<<>>}
    ELSE LET shorter == Texts(n - 1)
         IN  shorter \cup {s \o p : s \in shorter, p \in Pieces}
Files == {FileEnv(TRUE, TRUE, d) : d \in Texts(MaxLines)} \cup {NoFile, BadFile}

\* ----------------------------------------------------------------- state
Threads == {"t1", "t2"}
MainThread == "t1"

VARIABLES
    file,           \* the environment: a FileEnv
    fileOnce,       \* the Once of FILE_CONTENTS
    pwOnce,         \* the Once of PASSWORDS
    FILE_CONTENTS,  \* the cell of FILE_CONTENTS: Unset or Set(a string)
    PASSWORDS,      \* the cell of PASSWORDS: Unset or Set(a set of strings)
    fileReads,      \* how often read_to_string has filled FILE_CONTENTS
    setBuilds,      \* how often HashSet::from_iter has filled PASSWORDS
    th,             \* each thread's call: where it is and what it holds
    zx,             \* the estimator: the outcome of every call made so far
    ref,            \* a finished call kept to compare later ones against
    budget,         \* calls that may still start
    pool            \* the passwords the callers pass

vars == <<file, fileOnce, pwOnce, FILE_CONTENTS, PASSWORDS, fileReads,
          setBuilds, th, zx, ref, budget, pool>>

\* A lazy cell (and any other optional value): empty, or holding one value.
Unset == <<>>
Set(v) == <<v>>

INCOMPLETE == "INCOMPLETE"
RUNNING == "RUNNING"
COMPLETE == "COMPLETE"
POISONED == "POISONED"

Idle ==
    [pc |-> "idle", fn |-> None, arg |-> <<>>, len |-> None, uniq |-> None,
     ent |-> None, ret |-> None, waited |-> FALSE]

InitWith(files, passwords, calls) ==
    /\ pool = passwords
    /\ file \in files
    /\ fileOnce = INCOMPLETE
    /\ pwOnce = INCOMPLETE
    /\ FILE_CONTENTS = Unset
    /\ PASSWORDS = Unset
    /\ fileReads = 0
    /\ setBuilds = 0
    /\ th = [t \in Threads |-> Idle]
    /\ zx = <<>>
    /\ ref = Unset
    /\ budget = calls

Init == InitWith(SampleFiles, SamplePasswords, MaxCalls)

\* ------------------------------------------------------------------ Once
\* A Once that lets a second caller in while the first is still running.
OnceEnterUnserialized(state) ==
    CASE state = INCOMPLETE -> "run"
      [] state = RUNNING -> "run"
      [] state = COMPLETE -> "done"
      [] OTHER -> "panic"

\* A Once whose callers do not wait for the running initializer.
OnceEnterNoWait(state) ==
    CASE state = INCOMPLETE -> "run"
      [] state = RUNNING -> "done"
      [] state = COMPLETE -> "done"
      [] OTHER -> "panic"

\* A Once that ignores poisoning.
OnceEnterForce(state) ==
    CASE state = INCOMPLETE -> "run"
      [] state = RUNNING -> "wait"
      [] OTHER -> "done"

\* Once::call_once, by the state the caller finds: it runs the initializer,
\* waits for the thread running it, goes on, or panics on a poisoned Once.
OnceEnter(state) ==
    CASE state = INCOMPLETE -> "run"
      [] state = RUNNING -> "wait"
      [] state = COMPLETE -> "done"
      [] OTHER -> "panic"

\* What a dereference of PASSWORDS reads from its cell.
CellSet(cell) == IF cell = Unset THEN {} ELSE cell[1]

\* --------------------------------------------------------------- actions
\* The estimator's answer to a call: the one it gave before to the same
\* arguments, any outcome to arguments it has not seen.
Answers(args) == IF args \in DOMAIN zx THEN {zx[args]} ELSE Outcomes

Start(t, f, p) ==
    /\ th[t].pc = "idle"
    /\ budget > 0
    /\ budget' = budget - 1
    /\ UNCHANGED <<file, fileOnce, pwOnce, FILE_CONTENTS, PASSWORDS, fileReads,
                   setBuilds, zx, ref, pool>>

\* check_length(password), called on its own.
CallLength(t) ==
    \E p \in pool :
        /\ Start(t, "check_length", p)
        /\ th' = [th EXCEPT ![t] =
                    [Idle EXCEPT !.pc = "ret", !.fn = "check_length", !.arg = p,
                                 !.len = check_length(p), !.ret = check_length(p)]]

\* check_uniqueness(password): its first step is the dereference of PASSWORDS.
CallUniqueness(t) ==
    \E p \in pool :
        /\ Start(t, "check_uniqueness", p)
        /\ th' = [th EXCEPT ![t] =
                    [Idle EXCEPT !.pc = "deref", !.fn = "check_uniqueness", !.arg = p]]

\* check_entropy(password): its first step is the call of zxcvbn.
CallEntropy(t) ==
    \E p \in pool :
        /\ Start(t, "check_entropy", p)
        /\ th' = [th EXCEPT ![t] =
                    [Idle EXCEPT !.pc = "zxcvbn", !.fn = "check_entropy", !.arg = p]]

\* check_password(password): check_length(password) is evaluated, then the
\* argument of the first `and`, check_uniqueness(password), whatever the
\* length check gave.
CallPassword(t) ==
    \E p \in pool :
        /\ Start(t, "check_password", p)
        /\ th' = [th EXCEPT ![t] =
                    [Idle EXCEPT !.pc = "deref", !.fn = "check_password", !.arg = p,
                                 !.len = check_length(p)]]

\* The call unwinds: the thread holds no verdict.
Unwound(c) == [c EXCEPT !.pc = "ret", !.ret = Panicked]

\* PASSWORDS is dereferenced: Once::call_once on its Once.
Deref(t) ==
    /\ th[t].pc = "deref"
    /\ LET how == OnceEnter(pwOnce)
       IN  /\ th' = [th EXCEPT ![t] =
                      CASE how = "run" -> [@ EXCEPT !.pc = "open"]
                        [] how = "wait" -> [@ EXCEPT !.pc = "parked", !.waited = TRUE]
                        [] how = "done" -> [@ EXCEPT !.pc = "contains"]
                        [] OTHER -> Unwound(@)]
           /\ pwOnce' = IF how = "run" THEN RUNNING ELSE pwOnce
    /\ UNCHANGED <<file, fileOnce, FILE_CONTENTS, PASSWORDS, fileReads, setBuilds,
                   zx, ref, budget, pool>>

\* A parked thread that goes on at any wake-up without looking at the Once
\* again: the slip of a wait without its loop.
WakeEarly(t) ==
    /\ th[t].pc = "parked"
    /\ th' = [th EXCEPT ![t] =
                IF pwOnce = POISONED THEN Unwound(@) ELSE [@ EXCEPT !.pc = "contains"]]
    /\ UNCHANGED <<file, fileOnce, pwOnce, FILE_CONTENTS, PASSWORDS, fileReads,
                   setBuilds, zx, ref, budget, pool>>

\* A thread parked on the Once of PASSWORDS is woken when the initializer has
\* finished or has panicked.
Wake(t) ==
    /\ th[t].pc = "parked"
    /\ pwOnce \in {COMPLETE, POISONED}
    /\ th' = [th EXCEPT ![t] =
                IF pwOnce = COMPLETE THEN [@ EXCEPT !.pc = "contains"] ELSE Unwound(@)]
    /\ UNCHANGED <<file, fileOnce, pwOnce, FILE_CONTENTS, PASSWORDS, fileReads,
                   setBuilds, zx, ref, budget, pool>>

\* The initializer of PASSWORDS dereferences FILE_CONTENTS, whose initializer
\* opens the file. `expect` panics when the open fails: the panic poisons the
\* Once of FILE_CONTENTS and, unwinding through the initializer of PASSWORDS,
\* the Once of PASSWORDS.
Open(t) ==
    /\ th[t].pc = "open"
    /\ OnceEnter(fileOnce) = "run"
    /\ IF file.opens
       THEN /\ fileOnce' = RUNNING
            /\ th' = [th EXCEPT ![t].pc = "read"]
            /\ UNCHANGED pwOnce
       ELSE /\ fileOnce' = POISONED
            /\ pwOnce' = POISONED
            /\ th' = [th EXCEPT ![t] = Unwound(@)]
    /\ UNCHANGED <<file, FILE_CONTENTS, PASSWORDS, fileReads, setBuilds, zx, ref,
                   budget, pool>>

\* read_to_string fills the string, or `expect` panics as in Open.
Read(t) ==
    /\ th[t].pc = "read"
    /\ IF file.reads
       THEN /\ FILE_CONTENTS' = Set(file.data)
            /\ fileReads' = fileReads + 1
            /\ fileOnce' = COMPLETE
            /\ th' = [th EXCEPT ![t].pc = "build"]
            /\ UNCHANGED pwOnce
       ELSE /\ fileOnce' = POISONED
            /\ pwOnce' = POISONED
            /\ th' = [th EXCEPT ![t] = Unwound(@)]
            /\ UNCHANGED <<FILE_CONTENTS, fileReads>>
    /\ UNCHANGED <<file, PASSWORDS, setBuilds, zx, ref, budget, pool>>

\* HashSet::from_iter(FILE_CONTENTS.lines()) fills PASSWORDS and its Once
\* completes.
Build(t) ==
    /\ th[t].pc = "build"
    /\ \E stripFinalCR \in BOOLEAN :
          PASSWORDS' = Set(Lines(FILE_CONTENTS[1], stripFinalCR))
    /\ setBuilds' = setBuilds + 1
    /\ pwOnce' = COMPLETE
    /\ th' = [th EXCEPT ![t].pc = "contains"]
    /\ UNCHANGED <<file, fileOnce, FILE_CONTENTS, fileReads, zx, ref, budget, pool>>

\* PASSWORDS.contains(password): the verdict of check_uniqueness. Inside
\* check_password the argument of the second `and` comes next.
Lookup(t) ==
    /\ th[t].pc = "contains"
    /\ LET verdict == UniquenessVerdict(CellSet(PASSWORDS), th[t].arg)
       IN  th' = [th EXCEPT ![t] =
                    IF @.fn = "check_uniqueness"
                    THEN [@ EXCEPT !.pc = "ret", !.uniq = verdict, !.ret = verdict]
                    ELSE [@ EXCEPT !.pc = "zxcvbn", !.uniq = verdict]]
    /\ UNCHANGED <<file, fileOnce, pwOnce, FILE_CONTENTS, PASSWORDS, fileReads,
                   setBuilds, zx, ref, budget, pool>>

\* zxcvbn(password, &[]) and the match on its result; inside check_password
\* the two `and`s then give the verdict.
Entropy(t) ==
    /\ th[t].pc = "zxcvbn"
    /\ \E outcome \in Answers(EstimatorCall(th[t].arg)) :
          LET verdict == EntropyVerdict(outcome)
          IN  /\ zx' = (EstimatorCall(th[t].arg) :> outcome) @@ zx
              /\ th' = [th EXCEPT ![t] =
                          IF @.fn = "check_entropy"
                          THEN [@ EXCEPT !.pc = "ret", !.ent = verdict, !.ret = verdict]
                          ELSE [@ EXCEPT !.pc = "ret", !.ent = verdict,
                                         !.ret = And(And(th[t].len, th[t].uniq), verdict)]]
    /\ UNCHANGED <<file, fileOnce, pwOnce, FILE_CONTENTS, PASSWORDS, fileReads,
                   setBuilds, ref, budget, pool>>

\* What a finished call leaves to compare with.
Finished(c) == [fn |-> c.fn, arg |-> c.arg, ret |-> c.ret]

\* The call is over: the caller has its verdict (or the panic).
Return(t) ==
    /\ th[t].pc = "ret"
    /\ th' = [th EXCEPT ![t] = Idle]
    /\ ref' \in (IF ref = Unset THEN {Unset, Set(Finished(th[t]))} ELSE {ref})
    /\ UNCHANGED <<file, fileOnce, pwOnce, FILE_CONTENTS, PASSWORDS, fileReads,
                   setBuilds, zx, budget, pool>>

\* What one thread does on its own.
Step(t) ==
    \/ CallLength(t)
    \/ CallUniqueness(t)
    \/ CallEntropy(t)
    \/ CallPassword(t)
    \/ Deref(t)
    \/ Open(t)
    \/ Read(t)
    \/ Build(t)
    \/ Lookup(t)
    \/ Entropy(t)
    \/ Return(t)

Next == \E t \in Threads : Step(t) \/ Wake(t)

Spec == Init /\ [][Next]_vars

\* Every thread that can take a step takes one: the threads are scheduled by
\* the operating system and no step of a call waits for anything but the Once.
\* The specification with fairness has fewer calls and one password.
FairInit == InitWith(SampleFiles, {W8}, MaxFairCalls)
FairSpec == FairInit /\ [][Next]_vars /\ \A t \in Threads : WF_vars(Step(t) \/ Wake(t))

\* One caller, one call, every corpus file of up to MaxLines pieces.
SeqInit == InitWith(Files, Passwords, 1)
SeqNext == Step(MainThread)
SeqSpec == SeqInit /\ [][SeqNext]_vars

\* ---------------------------------------------------------------- claims
\* A call of f that has come back with a verdict.
Returned(t, f) == th[t].pc = "ret" /\ th[t].fn = f /\ th[t].ret # Panicked

\* The first failure of three verdicts taken in order.
FirstFailure(l, u, e) == IF l # Ok THEN l ELSE IF u # Ok THEN u ELSE e

\* C1: a check_password(p) that returns gives the reason of the first gate
\* that fails among check_length(p), check_uniqueness(p), check_entropy(p),
\* in that order, and gives Ok exactly when all three accept p.
C1_FirstFailingGate ==
    \A t \in Threads :
        Returned(t, "check_password") =>
            LET p == th[t].arg
                l == check_length(p)
                u == UniquenessVerdict(CellSet(PASSWORDS), p)
                e == EntropyVerdict(zx[EstimatorCall(p)])
            IN  /\ th[t].ret = FirstFailure(l, u, e)
                /\ th[t].ret = Ok <=> (l = Ok /\ u = Ok /\ e = Ok)

\* A check_password that returned TooCommon for a password the entropy gate
\* rejects too.
C1_Witness ==
    \E t \in Threads :
        /\ Returned(t, "check_password")
        /\ th[t].ret = TooCommon
        /\ th[t].ent \in {TooSimple, InternalError}

\* C2: check_password stops at the first failing gate: when the length gate
\* fails, the corpus and the estimator are not consulted and TooShort comes
\* back whatever the corpus file; when the uniqueness gate fails, the
\* estimator is not consulted.
C2_StopsAtFirstFailingGate ==
    \A t \in Threads :
        th[t].fn = "check_password" =>
            /\ th[t].len = TooShort =>
                  /\ th[t].pc = "ret"
                  /\ th[t].ret = TooShort
                  /\ th[t].uniq = None
                  /\ th[t].ent = None
            /\ th[t].uniq = TooCommon => th[t].pc = "ret" /\ th[t].ent = None

\* The length of a string in characters.
CharCount(s) == Len(s)

\* C3: check_length(p) is TooShort when p has fewer than 8 characters and Ok
\* when it has at least 8, multi-byte characters included.
C3_LengthCountsCharacters ==
    \A t \in Threads :
        Returned(t, "check_length") =>
            th[t].ret = (IF CharCount(th[t].arg) < MinLength THEN TooShort ELSE Ok)

\* Whether two strings are the same, character by character.
SameString(a, b) == Len(a) = Len(b) /\ \A i \in 1..Len(a) : a[i] = b[i]

\* In how many places two strings of one length differ.
Differences(a, b) == Cardinality({i \in 1..Len(a) : a[i] # b[i]})

\* C4: with the corpus loaded, check_uniqueness(p) is TooCommon exactly when p
\* equals a corpus entry character by character, and Ok otherwise.
C4_ExactMatchOnly ==
    \A t \in Threads :
        Returned(t, "check_uniqueness") =>
            /\ PASSWORDS # Unset
            /\ th[t].ret \in {TooCommon, Ok}
            /\ th[t].ret = TooCommon <=>
                  \E e \in CellSet(PASSWORDS) : SameString(e, th[t].arg)

\* A check_uniqueness that accepted a password one character away from a
\* corpus entry.
C4_Witness ==
    \E t \in Threads :
        /\ Returned(t, "check_uniqueness")
        /\ th[t].ret = Ok
        /\ \E e \in CellSet(PASSWORDS) :
              Len(e) = Len(th[t].arg) /\ Differences(e, th[t].arg) = 1

\* C5: check_entropy(p) calls the estimator with no user inputs and maps a
\* score >= 3 to Ok, a score < 3 to TooSimple, the unsupported-character
\* error to NonAsciiPassword and any other error to InternalError.
C5_EntropyMapping ==
    /\ \A args \in DOMAIN zx : args.user_inputs = <<>>
    /\ \A t \in Threads :
          Returned(t, "check_entropy") =>
              LET o == zx[EstimatorCall(th[t].arg)]
              IN  /\ (o.err = None /\ o.score >= 3) => th[t].ret = Ok
                  /\ (o.err = None /\ o.score < 3) => th[t].ret = TooSimple
                  /\ o.err = NonAsciiPassword => th[t].ret = NonAsciiPassword
                  /\ o.err = OtherZxcvbnError => th[t].ret = InternalError
                  /\ th[t].ret = TooSimple => o.err = None
                  /\ th[t].ret = NonAsciiPassword => o.err = NonAsciiPassword

\* A check_entropy that returned InternalError.
C5_Witness ==
    \E t \in Threads : Returned(t, "check_entropy") /\ th[t].ret = InternalError

\* C6: whatever the interleaving of the callers, the corpus file is read at
\* most once and the set is built at most once, and any call that has its
\* uniqueness verdict has it after exactly one read and one build.
C6_LoadedOnce ==
    /\ fileReads <= 1
    /\ setBuilds <= 1
    /\ \A t \in Threads :
          th[t].uniq # None => fileReads = 1 /\ setBuilds = 1

\* Two callers hold a uniqueness verdict at once, one of them having waited
\* for the other's load.
C6_Witness ==
    \E t, u \in Threads :
        /\ t # u
        /\ th[t].waited
        /\ th[t].uniq # None
        /\ th[u].uniq # None
        /\ fileReads = 1

\* Whether the corpus file can be loaded.
Loadable == file.opens /\ file.reads

C8_Idempotent ==
    \A t \in Threads :
        (ref # Unset /\ th[t].pc = "ret"
         /\ th[t].fn = ref[1].fn /\ th[t].arg = ref[1].arg)
            => th[t].ret = ref[1].ret

\* A check_uniqueness ends as the one that built the corpus ended, after a
\* call in between.
C8_Witness ==
    \E t \in Threads :
        /\ ref # Unset
        /\ ref[1].fn = "check_uniqueness"
        /\ ref[1].ret = TooCommon
        /\ Returned(t, "check_uniqueness")
        /\ th[t].arg = ref[1].arg
        /\ budget = 0

\* No lookup before the set is complete.
NoEarlyLookup ==
    \A t \in Threads :
        (th[t].pc = "contains" \/ th[t].uniq # None) =>
            /\ pwOnce = COMPLETE
            /\ FILE_CONTENTS = Set(file.data)
            /\ \E stripFinalCR \in BOOLEAN :
                  PASSWORDS = Set(Lines(file.data, stripFinalCR))

\* C9: a caller that finds the corpus being built waits; no lookup is
\* answered before the Once is complete and the cell holds the whole corpus;
\* and a waiting caller returns once the build is complete.
C9_BlockedUntilBuilt ==
    /\ []NoEarlyLookup
    /\ \A t \in Threads :
          (th[t].pc = "parked" /\ pwOnce = COMPLETE)
              ~> (th[t].pc = "ret" /\ th[t].ret # Panicked)

\* A caller that waited for the build has its uniqueness verdict.
C9_Witness ==
    \E t \in Threads : th[t].waited /\ th[t].uniq = TooCommon

\* Where the lines of a text start: at its first character and after every
\* "\n" that is not its last character.
LineStarts(f) == {a \in 1..Len(f) : a = 1 \/ f[a - 1] = LF}

\* The place of the "\n" that ends the line starting at a, or one past the
\* end of the text.
LineEnd(f, a) ==
    CHOOSE b \in a..(Len(f) + 1) :
        /\ b = Len(f) + 1 \/ f[b] = LF
        /\ \A k \in a..(b - 1) : f[k] # LF

\* The line starting at a, without its "\n".
RawLine(f, a) == SubSeq(f, a, LineEnd(f, a) - 1)

\* A line without the "\r" it ends with, if it ends with one.
WithoutCR(line) ==
    IF line # <<>> /\ line[Len(line)] = CR THEN SubSeq(line, 1, Len(line) - 1) ELSE line

\* The corpus entry of the line starting at a: a line ended by "\n" loses a
\* "\r" right before the "\n"; the last line, when no "\n" ends it, keeps a
\* trailing "\r" or loses it.
Entry(f, a, keepFinalCR) ==
    IF LineEnd(f, a) <= Len(f) \/ ~keepFinalCR
    THEN WithoutCR(RawLine(f, a))
    ELSE RawLine(f, a)

\* Whether a "\n" ends every line of the text.
AllTerminated(f) == f = <<>> \/ f[Len(f)] = LF

\* C10 as stated, for the files whose every line ends with "\n": the corpus
\* is the set of the "\n"-delimited lines of the file, each byte for byte,
\* and check_uniqueness(p) fails exactly when p is one of them.
C10_LinesByteForByte ==
    LET lines == {RawLine(file.data, a) : a \in LineStarts(file.data)}
    IN  AllTerminated(file.data) =>
            /\ PASSWORDS # Unset => PASSWORDS[1] = lines
            /\ \A t \in Threads :
                  Returned(t, "check_uniqueness") =>
                      (th[t].ret = TooCommon <=> th[t].arg \in lines)

\* C10 as amended: the corpus is the set of the lines of the file, each
\* without its "\n" and without a "\r" right before that "\n" and otherwise
\* byte for byte (the last line, when no "\n" ends it, with or without a
\* trailing "\r"), and check_uniqueness(p) fails exactly when p is one of
\* them.
C10_LinesWithoutTerminator ==
    PASSWORDS # Unset =>
        \E keepFinalCR \in BOOLEAN :
            LET lines == {Entry(file.data, a, keepFinalCR) : a \in LineStarts(file.data)}
            IN  /\ PASSWORDS[1] = lines
                /\ \A t \in Threads :
                      Returned(t, "check_uniqueness") =>
                          (th[t].ret = TooCommon <=> th[t].arg \in lines)

\* The file holds a line ended by "\r\n", a line ending in a space and no
\* other line, and check_uniqueness has rejected the first without its "\r".
C10_Witness ==
    /\ \E a \in LineStarts(file.data) :
          /\ LineEnd(file.data, a) <= Len(file.data)
          /\ RawLine(file.data, a) = W8CR
    /\ \E t \in Threads :
          /\ Returned(t, "check_uniqueness")
          /\ th[t].arg = W8
          /\ th[t].ret = TooCommon
          /\ W8SP \in PASSWORDS[1]

====
